---- MODULE Spec2Model ----
(***************************************************************************)
(* A model of the GPU memory reservation nodes (src/nodes.py): the         *)
(* telemetry provider (GPUManager), the strategy engine                    *)
(* (MemoryStrategyCalculator) and the cache reclaimer (MemoryCleaner).     *)
(*                                                                         *)
(* Numbers.  The program computes in floating point gigabytes.  The model  *)
(* computes exactly, in thousandths of a gigabyte (mGB): 1.0 GB is 1000.  *)
(* Ratios are whole percents (0.9 is 90).  All inputs drawn below are      *)
(* multiples of 0.1 GB, so every product with a percent is an exact mGB    *)
(* value and two-decimal formatting never meets a tie.  Byte counts exceed *)
(* TLC's 32-bit integers, so a byte count is carried as a pair [gib, rem]  *)
(* standing for gib * 2^30 + rem with |rem| < 2^30.                        *)
(***************************************************************************)
EXTENDS Integers, Sequences, FiniteSets, TLC

(***************************************************************************)
(* Program constants (src/nodes.py lines 29-41).                           *)
(***************************************************************************)
GB_TO_BYTES == 1024 * 1024 * 1024
MIN_RESERVED_GB == 600
DEFAULT_RESERVED_GB == 1000
MIN_SAFE_RESERVE_GB == 2000
MAX_RESERVED_RATIO == 90
MEMORY_STRATEGY_tight == 80

(***************************************************************************)
(* Bounds of the model.                                                    *)
(***************************************************************************)
\* Device totals are 0 .. MaxTotalGB whole gigabytes.
MaxTotalGB == 5
\* Requested reservations reach MaxReservedGB whole gigabytes.
MaxReservedGB == 4
\* Safety floors are 0.5 GB * (1 .. MaxMinSafeHalves).
MaxMinSafeHalves == 5
\* Threads that call clear_gpu_memory concurrently.
NThreads == 2
\* The device the reclaimer works on has ReclaimTotalGB whole gigabytes.
ReclaimTotalGB == 2

\* One gigabyte in model units.
GBm == 10 * 100

Max(a, b) == IF a >= b THEN a ELSE b
Min(a, b) == IF a <= b THEN a ELSE b

(***************************************************************************)
(* Values.                                                                 *)
(***************************************************************************)
\* Python's None, and the snapshot tuple (total_gb, used_gb, free_gb).
None == << >>
MemoryInfo(total, used, free) == << total, used, free >>

\* x * pct/100 for x in mGB (exact on multiples of 0.1 GB).
TimesRatio(x, pct) == (x * pct) \div 100

\* int(v_gb * GB_TO_BYTES) for v in mGB: Python's int() truncates toward 0.
\* v = 1000 * g + f gives g * 2^30 + f * 2^30 / 1000, and with
\* 2^30 = 1000 * q + r the second term is f * q + f * r / 1000.
ToBytesNonNeg(v) ==
    LET g == v \div GBm
        f == v % GBm
        q == GB_TO_BYTES \div GBm
        r == GB_TO_BYTES % GBm
    IN  [gib |-> g, rem |-> f * q + (f * r) \div GBm]

ToBytes(v) ==
    IF v >= 0 THEN ToBytesNonNeg(v)
    ELSE LET p == ToBytesNonNeg(0 - v) IN [gib |-> 0 - p.gib, rem |-> 0 - p.rem]

\* Order on byte counts.
BytesLeq(a, b) == a.gib < b.gib \/ (a.gib = b.gib /\ a.rem <= b.rem)

\* "{:.2f}".format(v_gb): hundredths of a GB, to nearest.
Fmt2(v) == IF v >= 0 THEN (v + 5) \div 10 ELSE 0 - ((5 - v) \div 10)

\* "{:.1f}".format(free_gb / total_gb * 100): tenths of a percent, to nearest.
FmtRatioPct(free, total) == (2 * free * GBm + total) \div (2 * total)

\* A variant of RatioBelow that counts the boundary itself as below.
RatioBelow_Inclusive(free, total, pct) ==
    IF total > 0 THEN free * 100 <= pct * total ELSE free * 100 >= pct * total

\* free_gb / total_gb < pct/100, for total_gb # 0.
RatioBelow(free, total, pct) ==
    IF total > 0 THEN free * 100 < pct * total ELSE free * 100 > pct * total

(***************************************************************************)
(* What a call of the strategy engine yields: a returned pair              *)
(* (bytes, detail) together with the warnings it logged, or an exception.  *)
(* detail is the explanation string, kept as its template and the numbers  *)
(* formatted into it.                                                      *)
(***************************************************************************)
NoBytes == [gib |-> 0 - 1, rem |-> 0 - 1]
Detail(template, args) == [template |-> template, args |-> args]
Returned(bytes, detail, warnings) ==
    [status |-> "returned", bytes |-> bytes, detail |-> detail, warnings |-> warnings]
Raised(exc, warnings) ==
    [status |-> exc, bytes |-> NoBytes, detail |-> Detail("", << >>), warnings |-> warnings]
NoResult == [status |-> "none", bytes |-> NoBytes, detail |-> Detail("", << >>), warnings |-> << >>]

(***************************************************************************)
(* MemoryStrategyCalculator                                                *)
(***************************************************************************)
ManualMode(reserved, min_safe_reserve, memory_info) ==
    LET manual_reserved == Max(reserved, min_safe_reserve) IN
    IF memory_info # None
    THEN LET total_gb == memory_info[1]
             used_gb == memory_info[2]
             max_allowed == TimesRatio(total_gb, MAX_RESERVED_RATIO)
         IN  IF manual_reserved > max_allowed
             THEN Returned(ToBytes(max_allowed),
                           Detail("manual_limited",
                                  << Fmt2(reserved), Fmt2(max_allowed), MAX_RESERVED_RATIO >>),
                           << "manual_limited" >>)
             ELSE Returned(ToBytes(manual_reserved),
                           Detail("manual",
                                  << Fmt2(manual_reserved), Fmt2(total_gb), Fmt2(used_gb) >>),
                           << >>)
    ELSE Returned(ToBytes(manual_reserved),
                  Detail("manual_no_gpu_info", << Fmt2(manual_reserved) >>),
                  << >>)

\* A variant of AutoMode that does not raise used + buffer to the floor.
AutoMode_NoFloor(reserved, min_safe_reserve, memory_info) ==
    IF memory_info = None
    THEN LET r == ManualMode(reserved, min_safe_reserve, None)
         IN  [r EXCEPT !.warnings = << "auto_fallback_manual" >> \o @]
    ELSE LET auto_reserved == memory_info[2] + reserved
             safe_reserved == Min(auto_reserved, TimesRatio(memory_info[1], 85))
         IN  Returned(ToBytes(safe_reserved),
                      Detail("auto", << Fmt2(safe_reserved), Fmt2(memory_info[2]), Fmt2(reserved) >>),
                      << >>)

\* A variant of AutoMode whose no-snapshot fallback is smart mode's padded
\* default instead of manual mode.
AutoMode_FallbackPadded(reserved, min_safe_reserve, memory_info) ==
    IF memory_info = None
    THEN LET default_value == Max(reserved + GBm, min_safe_reserve)
         IN  Returned(ToBytes(default_value),
                      Detail("manual_no_gpu_info", << Fmt2(default_value) >>),
                      << "auto_fallback_manual" >>)
    ELSE LET auto_reserved == Max(memory_info[2] + reserved, min_safe_reserve)
             safe_reserved == Min(auto_reserved, TimesRatio(memory_info[1], 85))
         IN  Returned(ToBytes(safe_reserved),
                      Detail("auto", << Fmt2(safe_reserved), Fmt2(memory_info[2]), Fmt2(reserved) >>),
                      << >>)

AutoMode(reserved, min_safe_reserve, memory_info) ==
    IF memory_info = None
    THEN LET r == ManualMode(reserved, min_safe_reserve, None)
         IN  [r EXCEPT !.warnings = << "auto_fallback_manual" >> \o @]
    ELSE LET total_gb == memory_info[1]
             used_gb == memory_info[2]
             auto_reserved == Max(used_gb + reserved, min_safe_reserve)
             max_allowed == TimesRatio(total_gb, 85)
             safe_reserved == Min(auto_reserved, max_allowed)
         IN  IF auto_reserved # safe_reserved
             THEN Returned(ToBytes(safe_reserved),
                           Detail("auto_limited",
                                  << Fmt2(auto_reserved), Fmt2(safe_reserved),
                                     Fmt2(used_gb), Fmt2(reserved) >>),
                           << >>)
             ELSE Returned(ToBytes(safe_reserved),
                           Detail("auto",
                                  << Fmt2(safe_reserved), Fmt2(used_gb), Fmt2(reserved) >>),
                           << >>)

SmartMode(reserved, min_safe_reserve, memory_info) ==
    IF memory_info = None
    THEN LET default_value == Max(reserved + GBm, min_safe_reserve)
         IN  Returned(ToBytes(default_value),
                      Detail("smart_no_gpu_info", << Fmt2(default_value) >>),
                      << "smart_no_gpu_info" >>)
    ELSE LET total_gb == memory_info[1]
             used_gb == memory_info[2]
             free_gb == memory_info[3]
         IN  IF total_gb = 0
             THEN Raised("ZeroDivisionError", << >>)
             ELSE LET base_reserved == used_gb + reserved
                      status == IF RatioBelow(free_gb, total_gb, 20) THEN "tight"
                                ELSE IF RatioBelow(free_gb, total_gb, 40) THEN "medium"
                                ELSE "loose"
                      banded == CASE status = "tight" ->
                                         Max(base_reserved,
                                             TimesRatio(total_gb, MEMORY_STRATEGY_tight))
                                  [] status = "medium" -> base_reserved
                                  [] OTHER -> Max(base_reserved, min_safe_reserve)
                      smart_reserved == Max(banded, min_safe_reserve)
                      max_allowed == TimesRatio(total_gb, MAX_RESERVED_RATIO)
                      safe_reserved == Min(smart_reserved, max_allowed)
                  IN  Returned(ToBytes(safe_reserved),
                               Detail(IF smart_reserved # safe_reserved
                                      THEN "smart_" \o status \o "_adjusted"
                                      ELSE "smart_" \o status,
                                      << Fmt2(safe_reserved), Fmt2(free_gb), Fmt2(total_gb),
                                         FmtRatioPct(free_gb, total_gb) >>
                                      \o (IF smart_reserved # safe_reserved
                                          THEN << Fmt2(smart_reserved), Fmt2(safe_reserved) >>
                                          ELSE << >>)),
                               << >>)

\* The dispatch on mode (lines 351-365), given the snapshot read at line 349.
Dispatch(reserved, mode, min_safe_reserve, memory_info) ==
    CASE mode = "manual" -> ManualMode(reserved, min_safe_reserve, memory_info)
      [] mode = "auto" -> AutoMode(reserved, min_safe_reserve, memory_info)
      [] mode = "smart" -> SmartMode(reserved, min_safe_reserve, memory_info)
      [] OTHER -> Returned(ToBytes(Max(reserved, min_safe_reserve)),
                           Detail("default_mode", << >>),
                           << "unknown_mode" >>)

(***************************************************************************)
(* State.                                                                  *)
(***************************************************************************)
VARIABLES
    \* GPUManager and the devices behind it
    pynvml_available,   \* GPUManager._pynvml_available
    gpu_count,          \* what nvmlDeviceGetCount() answers
    gpu_mem,            \* device index -> (total, used, free) as NVML reports it
    cuda_available,     \* torch.cuda.is_available()
    \* one call of calculate_reserved_memory
    reserved, mode, gpu_index, min_safe_reserve,
    memory_info,        \* the snapshot read at line 349
    result,             \* what the call yielded
    pc,                 \* "call" before the call, "done" after it
    \* MemoryCleaner
    lock,               \* MemoryCleaner._lock: 0 when free, else the holding thread
    th,                 \* each thread's position in clear_gpu_memory and its result dict
    last_report,        \* the result dict most recently returned by clear_gpu_memory
    \* the nodes and what they write
    node,               \* the set_memory or clean call in progress: position and locals
    slot,               \* model_management.EXTRA_RESERVED_MEMORY
    cleanup_calls,      \* the calls that ran model_management.cleanup_models()
    \* the GPUManager singleton under construction
    mgr,                \* GPUManager._instance, _lock, _initialized and the instance's fields
    ctor                \* each thread's position in GPUManager()

gpuVars == << pynvml_available, gpu_count, gpu_mem, cuda_available >>
calcVars == << reserved, mode, gpu_index, min_safe_reserve, memory_info, result, pc >>
cleanVars == << lock, th, last_report >>
nodeVars == << node, slot, cleanup_calls >>
mgrVars == << mgr, ctor >>
vars == << gpuVars, calcVars, cleanVars, nodeVars, mgrVars >>

(***************************************************************************)
(* Inputs.                                                                 *)
(***************************************************************************)
\* Snapshots in whole gigabytes with used + free <= total (NVML may hold some
\* memory back as reserved); total = 0 is a device that reports no memory.
Snapshots ==
    { MemoryInfo(t * GBm, u * GBm, f * GBm) :
        << t, u, f >> \in { x \in (0..MaxTotalGB) \X (0..MaxTotalGB) \X (0..MaxTotalGB) :
                             x[2] <= x[1] /\ x[3] <= x[1] - x[2] } }

\* The slider's range starts at MIN_RESERVED_GB and moves in steps of 0.1 GB.
ReservedValues ==
    { MIN_RESERVED_GB, DEFAULT_RESERVED_GB } \cup { k * GBm : k \in 2..MaxReservedGB }

\* The floor's slider moves in steps of 0.5 GB from 0.5 GB.
MinSafeValues == { k * (GBm \div 2) : k \in 1..MaxMinSafeHalves }

\* The node's three modes and a string that is none of them.
KnownModes == { "manual", "auto", "smart" }
ModeValues == KnownModes \cup { "turbo" }

(***************************************************************************)
(* GPUManager                                                              *)
(***************************************************************************)
\* count_ok: nvmlDeviceGetCount() answers rather than raises.  Without pynvml
\* the count is torch's, which sees the same gpu_count devices.
GetGpuCount(count_ok) ==
    IF ~pynvml_available
    THEN (IF cuda_available THEN gpu_count ELSE 0)
    ELSE IF count_ok THEN gpu_count ELSE 0

ValidateGpuIndex(index, count_ok) ==
    ~(index < 0 \/ index >= GetGpuCount(count_ok))

\* query_ok: the NVML handle and memory queries answer rather than raise.
GetGpuMemoryInfo(index, count_ok, query_ok) ==
    IF ~pynvml_available THEN None
    ELSE IF ~ValidateGpuIndex(index, count_ok) THEN None
    ELSE IF query_ok THEN gpu_mem[index]
    ELSE None

(***************************************************************************)
(* calculate_reserved_memory as one step: read the snapshot, dispatch.     *)
(***************************************************************************)
InitGpu ==
    /\ pynvml_available \in BOOLEAN
    /\ gpu_count = 1
    /\ gpu_mem \in [0..0 -> Snapshots]
    /\ cuda_available = TRUE

InitCleanIdle ==
    /\ lock = 0
    /\ th = << >>
    /\ last_report = << >>

\* A node call's position and locals: pc is "idle" before any call and "done"
\* once the call has returned ret; hist lists what the call has done so far.
NodeIdle ==
    [pc |-> "idle", op |-> "", anything |-> "", clear_memory |-> FALSE,
     show_gpu_info |-> FALSE, clear_all_gpus |-> FALSE, aggressive |-> FALSE,
     requested_index |-> 0, hist |-> << >>, clean_result |-> << >>, ret |-> ""]

\* No node is executing; the reservation slot holds what the host set.
InitNodeIdle ==
    /\ node = NodeIdle
    /\ slot = NoBytes
    /\ cleanup_calls = {}

\* The singleton exists and is initialized (the module built it at import).
InitMgrIdle ==
    /\ mgr = [instance |-> 1, lock |-> 0, initialized |-> TRUE,
              objs |-> << "ready" >>, init_runs |-> 1]
    /\ ctor = << >>

InitCalc ==
    /\ InitGpu
    /\ reserved \in ReservedValues
    /\ mode \in ModeValues
    /\ gpu_index \in 0..gpu_count
    /\ min_safe_reserve \in MinSafeValues
    /\ memory_info = None
    /\ result = NoResult
    /\ pc = "call"
    /\ InitCleanIdle
    /\ InitNodeIdle
    /\ InitMgrIdle

CalculateReservedMemory ==
    /\ pc = "call"
    /\ \E count_ok \in BOOLEAN, query_ok \in BOOLEAN :
         LET info == GetGpuMemoryInfo(gpu_index, count_ok, query_ok)
         IN  /\ memory_info' = info
             /\ result' = Dispatch(reserved, mode, min_safe_reserve, info)
    /\ pc' = "done"
    /\ UNCHANGED << gpuVars, reserved, mode, gpu_index, min_safe_reserve, cleanVars, nodeVars, mgrVars >>

NextCalc == CalculateReservedMemory

SpecCalc == InitCalc /\ [][NextCalc]_vars

(***************************************************************************)
(* Properties of the strategy engine, checked under SpecCalc.              *)
(***************************************************************************)
CalcDone == pc = "done"
CalcReturned == pc = "done" /\ result.status = "returned"
HasSnapshot == memory_info # None
\* The snapshot is one of a device that reports memory.
HasRealSnapshot == memory_info # None /\ memory_info[1] > 0

\* bytes >= v_gb * 2^30 and bytes <= v_gb * 2^30 over the reals, for v >= 0 in
\* mGB: against the product rounded up, and rounded down.
BytesAtLeastGB(bytes, v) ==
    LET down == ToBytesNonNeg(v)
        exact == ((v % GBm) * (GB_TO_BYTES % GBm)) % GBm = 0
        up == IF exact THEN down ELSE [gib |-> down.gib, rem |-> down.rem + 1]
    IN  BytesLeq(up, bytes)
BytesAtMostGB(bytes, v) == BytesLeq(bytes, ToBytesNonNeg(v))

\* The ceiling a mode applies to a snapshot: 0.85 of the total in auto mode,
\* 0.9 of it in manual and smart mode.
CeilingOf(m, info) == IF m = "auto" THEN (info[1] * 85) \div 100 ELSE (info[1] * 9) \div 10

\* C1 as stated: in manual, auto and smart mode, without a snapshot or with the
\* snapshot of a device that reports memory, the returned byte count is at least
\* min_safe_reserve * 2^30, also when the mode's ceiling is below
\* min_safe_reserve.
C1_FloorAlways ==
    (CalcReturned /\ mode \in KnownModes /\ (~HasSnapshot \/ HasRealSnapshot))
        => BytesAtLeastGB(result.bytes, min_safe_reserve)

\* C1 amended: in manual, auto and smart mode the call returns a byte count of at
\* least min_safe_reserve * 2^30 whenever there is no snapshot or the mode's
\* ceiling is at least min_safe_reserve; when the ceiling is below
\* min_safe_reserve a returned byte count is int(ceiling * 2^30), below the floor.
C1_FloorUnlessCeilingBelow ==
    (CalcDone /\ mode \in KnownModes) =>
        /\ (~HasSnapshot \/ CeilingOf(mode, memory_info) >= min_safe_reserve)
              => /\ result.status = "returned"
                 /\ BytesAtLeastGB(result.bytes, min_safe_reserve)
        /\ (HasSnapshot /\ CeilingOf(mode, memory_info) < min_safe_reserve
                /\ result.status = "returned")
              => /\ result.bytes = ToBytes(CeilingOf(mode, memory_info))
                 /\ ~BytesAtLeastGB(result.bytes, min_safe_reserve)

\* The floor decides the result: a snapshot whose ceiling admits the floor, and
\* a request below the floor, in each mode.
C1_Witness ==
    /\ CalcReturned /\ mode = "auto" /\ HasSnapshot
    /\ memory_info[2] + reserved < min_safe_reserve
    /\ CeilingOf(mode, memory_info) >= min_safe_reserve
    /\ result.bytes = ToBytes(min_safe_reserve)

C4_DegenerateSnapshotIsAbsent ==
    CalcDone =>
        /\ result.status = "returned"
        /\ BytesLeq(ToBytes(0), result.bytes)
        /\ (mode = "smart" /\ HasSnapshot /\ memory_info[1] = 0)
              => result.bytes = ToBytes(Max(reserved + GBm, min_safe_reserve))

\* C5 as stated: auto mode without a snapshot returns manual mode's no-snapshot
\* byte count max(target, floor) * 2^30, with an explanation that differs from
\* the one a direct manual-mode call returns.
C5_AutoFallbackFlagged ==
    (CalcDone /\ mode = "auto" /\ ~HasSnapshot) =>
        /\ result.status = "returned"
        /\ result.bytes = ToBytes(Max(reserved, min_safe_reserve))
        /\ result.detail # Detail("manual_no_gpu_info", << Fmt2(Max(reserved, min_safe_reserve)) >>)

\* C5 amended: auto mode without a snapshot returns manual mode's no-snapshot
\* byte count max(target, floor) * 2^30 and manual mode's own no-snapshot
\* explanation, unchanged; the fallback is reported as a logged warning only.
C5_AutoFallbackIsManual ==
    (CalcDone /\ mode = "auto" /\ ~HasSnapshot) =>
        /\ result.status = "returned"
        /\ result.bytes = ToBytes(Max(reserved, min_safe_reserve))
        /\ result.detail = Detail("manual_no_gpu_info", << Fmt2(Max(reserved, min_safe_reserve)) >>)
        /\ result.warnings = << "auto_fallback_manual" >>

\* Auto mode ran without a snapshot, on a request below the floor and on one
\* above it (here: below).
C5_Witness ==
    /\ CalcReturned /\ mode = "auto" /\ ~HasSnapshot
    /\ reserved < min_safe_reserve
    /\ result.bytes = ToBytes(min_safe_reserve)

\* C6: smart mode with a snapshot and ratio = free_gb / total_gb: the value is
\* max(used + target, 0.8 * total) when ratio < 0.20, used + target when
\* 0.20 <= ratio < 0.40, max(used + target, floor) when ratio >= 0.40; it is then
\* raised to the floor, capped at 0.9 * total, and the byte count is
\* int(value * 2^30).
C6_SmartBands ==
    (CalcDone /\ mode = "smart" /\ HasSnapshot /\ memory_info[1] > 0) =>
        LET total == memory_info[1]
            used == memory_info[2]
            free == memory_info[3]
            value == IF 5 * free < total THEN Max(used + reserved, (total * 8) \div 10)
                     ELSE IF 5 * free < 2 * total THEN used + reserved
                     ELSE Max(used + reserved, min_safe_reserve)
            capped == Min(Max(value, min_safe_reserve), (total * 9) \div 10)
        IN  /\ result.status = "returned"
            /\ result.bytes = ToBytes(capped)

\* Smart mode ran on a snapshot whose ratio is exactly 0.20 and took the
\* medium band's value, which neither the floor nor the cap changed.
C6_Witness ==
    /\ CalcReturned /\ mode = "smart" /\ HasSnapshot
    /\ memory_info[1] > 0 /\ 5 * memory_info[3] = memory_info[1]
    /\ result.detail.template = "smart_medium"
    /\ result.bytes = ToBytes(memory_info[2] + reserved)

\* C7 as stated: manual mode with a snapshot (of a device that reports memory)
\* reports clamping exactly when max(target, floor) > 0.9 * total, and then
\* states max(target, floor) as the value before the clamp and 0.9 * total, the
\* value returned, as the value after it.
C7_ManualClampExplained ==
    (CalcDone /\ mode = "manual" /\ HasRealSnapshot) =>
        LET pre == Max(reserved, min_safe_reserve)
            post == (memory_info[1] * 9) \div 10
        IN  /\ result.status = "returned"
            /\ (result.detail.template = "manual_limited") <=> (pre > post)
            /\ pre > post =>
                 /\ result.detail.args[1] = Fmt2(pre)
                 /\ result.detail.args[2] = Fmt2(post)
                 /\ result.bytes = ToBytes(post)

(***************************************************************************)
(* MemoryCleaner.clear_gpu_memory, one step per statement that touches the *)
(* lock, the device or the runtime.  A thread's record is its position     *)
(* (pc) and its result dict; `ran` and `raised` note which steps were      *)
(* carried out and which one raised.                                       *)
(***************************************************************************)
Threads == 1..NThreads

\* The result dict as line 230 creates it.
FreshResult ==
    [success |-> FALSE, torch_cuda |-> FALSE, gc_collected |-> 0,
     before_memory |-> None, after_memory |-> None,
     freed_memory_gb |-> 0, freed_memory_mb |-> 0,
     ran |-> {}, raised |-> ""]

ThreadAt(position, res) == [pc |-> position, res |-> res]

InitClean ==
    /\ pynvml_available \in BOOLEAN
    /\ gpu_count = 1
    /\ \E u \in 0..ReclaimTotalGB :
         gpu_mem = [i \in 0..0 |->
                      MemoryInfo(ReclaimTotalGB * GBm, u * GBm, (ReclaimTotalGB - u) * GBm)]
    /\ cuda_available \in BOOLEAN
    /\ reserved = DEFAULT_RESERVED_GB
    /\ mode = "smart"
    /\ gpu_index = 0
    /\ min_safe_reserve = MIN_SAFE_RESERVE_GB
    /\ memory_info = None
    /\ result = NoResult
    /\ pc = "call"
    /\ lock = 0
    /\ th = [t \in Threads |-> ThreadAt("idle", FreshResult)]
    /\ last_report = << >>
    /\ InitNodeIdle
    /\ InitMgrIdle

\* A thread calls clear_gpu_memory(0) and reaches the with statement.
Call(t) ==
    /\ th[t].pc = "idle"
    /\ th' = [th EXCEPT ![t] = ThreadAt("lock", FreshResult)]
    /\ UNCHANGED << gpuVars, calcVars, lock, last_report, nodeVars, mgrVars >>

\* A variant of Acquire that enters without waiting for the lock.
Acquire_NoLock(t) ==
    /\ th[t].pc = "lock"
    /\ lock' = t
    /\ th' = [th EXCEPT ![t] = ThreadAt("before", FreshResult)]
    /\ UNCHANGED << gpuVars, calcVars, last_report, nodeVars, mgrVars >>

\* with MemoryCleaner._lock: (line 229), then the fresh result dict.
Acquire(t) ==
    /\ th[t].pc = "lock"
    /\ lock = 0
    /\ lock' = t
    /\ th' = [th EXCEPT ![t] = ThreadAt("before", FreshResult)]
    /\ UNCHANGED << gpuVars, calcVars, last_report, nodeVars, mgrVars >>

\* result["before_memory"] = gpu_manager.get_gpu_memory_info(gpu_index)
MeasureBefore(t) ==
    /\ th[t].pc = "before"
    /\ \E count_ok \in BOOLEAN, query_ok \in BOOLEAN :
         th' = [th EXCEPT ![t] =
                  ThreadAt("empty_cache",
                           [@.res EXCEPT !.before_memory = GetGpuMemoryInfo(0, count_ok, query_ok),
                                         !.ran = @ \cup {"before"}])]
    /\ UNCHANGED << gpuVars, calcVars, lock, last_report, nodeVars, mgrVars >>

\* The except clause (lines 280-282): success = False, then the return.
Except(t, step) ==
    th' = [th EXCEPT ![t] =
             ThreadAt("release", [@.res EXCEPT !.success = FALSE, !.raised = step])]

\* The device after the allocator gave k GB of cache back.
Released(info, k) == MemoryInfo(info[1], info[2] - k * GBm, info[3] + k * GBm)

\* A variant of EmptyCache whose failure is caught on its own, so that the
\* garbage pass still follows.
EmptyCache_Independent(t) ==
    /\ th[t].pc = "empty_cache"
    /\ \/ /\ ~cuda_available
          /\ th' = [th EXCEPT ![t].pc = "gc"]
          /\ UNCHANGED gpu_mem
       \/ /\ cuda_available
          /\ \E k \in 0..(gpu_mem[0][2] \div GBm) :
               gpu_mem' = [gpu_mem EXCEPT ![0] = Released(@, k)]
          /\ th' = [th EXCEPT ![t] =
                      ThreadAt("synchronize", [@.res EXCEPT !.ran = @ \cup {"empty_cache"}])]
       \/ /\ cuda_available
          /\ th' = [th EXCEPT ![t] =
                      ThreadAt("gc", [@.res EXCEPT !.raised = "empty_cache"])]
          /\ UNCHANGED gpu_mem
    /\ UNCHANGED << pynvml_available, gpu_count, cuda_available, calcVars, lock, last_report, nodeVars, mgrVars >>

\* if torch.cuda.is_available(): torch.cuda.empty_cache()  (lines 247-248)
EmptyCache(t) ==
    /\ th[t].pc = "empty_cache"
    /\ \/ /\ ~cuda_available
          /\ th' = [th EXCEPT ![t].pc = "gc"]
          /\ UNCHANGED gpu_mem
       \/ /\ cuda_available
          /\ \E k \in 0..(gpu_mem[0][2] \div GBm) :
               gpu_mem' = [gpu_mem EXCEPT ![0] = Released(@, k)]
          /\ th' = [th EXCEPT ![t] =
                      ThreadAt("synchronize", [@.res EXCEPT !.ran = @ \cup {"empty_cache"}])]
       \/ /\ cuda_available
          /\ Except(t, "empty_cache")
          /\ UNCHANGED gpu_mem
    /\ UNCHANGED << pynvml_available, gpu_count, cuda_available, calcVars, lock, last_report, nodeVars, mgrVars >>

\* torch.cuda.synchronize(); result["torch_cuda"] = True  (lines 249-250)
Synchronize(t) ==
    /\ th[t].pc = "synchronize"
    /\ \/ th' = [th EXCEPT ![t] =
                   ThreadAt("gc", [@.res EXCEPT !.torch_cuda = TRUE,
                                                !.ran = @ \cup {"synchronize"}])]
       \/ Except(t, "synchronize")
    /\ UNCHANGED << gpuVars, calcVars, lock, last_report, nodeVars, mgrVars >>

\* collected = gc.collect(); result["gc_collected"] = collected  (lines 254-255)
GcCollect(t) ==
    /\ th[t].pc = "gc"
    /\ \/ \E collected \in 0..1 :
            th' = [th EXCEPT ![t] =
                     ThreadAt("after", [@.res EXCEPT !.gc_collected = collected,
                                                     !.ran = @ \cup {"gc"}])]
       \/ Except(t, "gc")
    /\ UNCHANGED << gpuVars, calcVars, lock, last_report, nodeVars, mgrVars >>

\* A variant of Measured that never reports a negative amount.
Measured_Clamped(res, after) ==
    LET r == [res EXCEPT !.after_memory = after, !.ran = @ \cup {"after"}] IN
    IF r.before_memory # None /\ r.after_memory # None
    THEN LET freed_gb == Max(r.before_memory[2] - r.after_memory[2], 0)
         IN  [r EXCEPT !.freed_memory_gb = freed_gb,
                       !.freed_memory_mb = freed_gb * 1024,
                       !.success = TRUE]
    ELSE [r EXCEPT !.success = TRUE]

\* The result dict after lines 259-278, given the after-snapshot.
Measured(res, after) ==
    LET r == [res EXCEPT !.after_memory = after, !.ran = @ \cup {"after"}] IN
    IF r.before_memory # None /\ r.after_memory # None
    THEN LET freed_gb == r.before_memory[2] - r.after_memory[2]
         IN  [r EXCEPT !.freed_memory_gb = freed_gb,
                       !.freed_memory_mb = freed_gb * 1024,
                       !.success = TRUE]
    ELSE [r EXCEPT !.success = TRUE]

\* result["after_memory"] = ...; the freed amount; success = True  (lines 259-278)
MeasureAfter(t) ==
    /\ th[t].pc = "after"
    /\ \E count_ok \in BOOLEAN, query_ok \in BOOLEAN :
         th' = [th EXCEPT ![t] =
                  ThreadAt("release",
                           Measured(@.res, GetGpuMemoryInfo(0, count_ok, query_ok)))]
    /\ UNCHANGED << gpuVars, calcVars, lock, last_report, nodeVars, mgrVars >>

\* return result, leaving the with block: the lock is released.
Release(t) ==
    /\ th[t].pc = "release"
    /\ lock' = 0
    /\ last_report' = << th[t].res >>
    /\ th' = [th EXCEPT ![t] = ThreadAt("idle", FreshResult)]
    /\ UNCHANGED << gpuVars, calcVars, nodeVars, mgrVars >>

\* Some other workload allocates a gigabyte on the device.
Allocate ==
    /\ gpu_mem[0][3] >= GBm
    /\ gpu_mem' = [gpu_mem EXCEPT ![0] = MemoryInfo(@[1], @[2] + GBm, @[3] - GBm)]
    /\ UNCHANGED << pynvml_available, gpu_count, cuda_available, calcVars, cleanVars, nodeVars, mgrVars >>

NextClean ==
    \/ \E t \in Threads : Call(t)
    \/ \E t \in Threads : Acquire(t)
    \/ \E t \in Threads : MeasureBefore(t)
    \/ \E t \in Threads : EmptyCache(t)
    \/ \E t \in Threads : Synchronize(t)
    \/ \E t \in Threads : GcCollect(t)
    \/ \E t \in Threads : MeasureAfter(t)
    \/ \E t \in Threads : Release(t)
    \/ Allocate

SpecClean == InitClean /\ [][NextClean]_vars

(***************************************************************************)
(* Properties of the reclaimer, checked under SpecClean.                   *)
(***************************************************************************)
\* A call's measurement window: its before-snapshot is taken and its
\* after-snapshot (or the exception that ends the call) is still to come.
InWindow(t) == th[t].pc \in { "empty_cache", "synchronize", "gc", "after" }
\* A clear_gpu_memory call has returned; Report is the dict it returned.
Reported == last_report # << >>
Report == last_report[1]

\* C8: the windows (before-measurement, cache release, gc, after-measurement)
\* of two concurrent clear_gpu_memory calls never overlap: while one thread is
\* between its two measurements no other thread is past the lock.
C8_WindowsSerialized ==
    \A t \in Threads :
        InWindow(t) =>
            /\ lock = t
            /\ \A o \in Threads \ {t} : th[o].pc \in { "idle", "lock" }

\* One thread is inside its window while another has called and waits.
C8_Witness ==
    \E t \in Threads, o \in Threads :
        /\ t # o
        /\ th[t].pc = "gc" /\ "empty_cache" \in th[t].res.ran
        /\ th[o].pc = "lock"

\* C9 as stated: when releasing the allocator cache fails, the garbage pass and
\* the after-measurement are still carried out, and when the garbage pass fails
\* the after-measurement is still taken.
C9_StepsIndependent ==
    Reported =>
        /\ Report.raised \in { "empty_cache", "synchronize" }
              => ("gc" \in Report.ran /\ "after" \in Report.ran)
        /\ Report.raised = "gc" => "after" \in Report.ran

\* C9 amended: the cache release, the garbage pass and the after-measurement
\* share one guard: when releasing the allocator cache fails, the garbage pass
\* and the after-measurement are skipped, and when the garbage pass fails the
\* after-measurement is skipped; the call then goes straight to its return
\* and reports success = false, freed_memory_gb = 0.0 and no after-snapshot.
C9_FailureSkipsTheRest ==
    /\ \A t \in Threads :
          th[t].res.raised # "" =>
              /\ th[t].pc = "release"
              /\ ~th[t].res.success
    /\ Reported =>
          /\ Report.raised \in { "empty_cache", "synchronize" }
                => ("gc" \notin Report.ran /\ Report.gc_collected = 0)
          /\ Report.raised # "" =>
                /\ "after" \notin Report.ran
                /\ Report.after_memory = None
                /\ ~Report.success
                /\ Report.freed_memory_gb = 0

\* A call whose cache release raised after a before-snapshot was taken has
\* returned.
C9_Witness ==
    /\ Reported
    /\ Report.raised = "empty_cache"
    /\ Report.before_memory # None

\* C10 as stated: when either snapshot of the report is None, freed_memory_gb
\* is 0.0 and the reclaim is reported successful; when both exist,
\* freed_memory_gb is used_before - used_after, negative values included.
C10_FreedAndSuccess ==
    Reported =>
        /\ (Report.before_memory = None \/ Report.after_memory = None)
              => (Report.freed_memory_gb = 0 /\ Report.success)
        /\ (Report.before_memory # None /\ Report.after_memory # None)
              => /\ Report.freed_memory_gb = Report.before_memory[2] - Report.after_memory[2]
                 /\ Report.success

\* C10 amended: when no reclaim step raised and either snapshot is None,
\* freed_memory_gb is 0.0 and success is true; when a reclaim step raised,
\* freed_memory_gb is 0.0 and success is false; when both snapshots exist,
\* freed_memory_gb is used_before - used_after unclamped (negative when the
\* device's use grew meanwhile) and success is true.
C10_FreedAndSuccessUnlessRaised ==
    Reported =>
        /\ (Report.raised = "" /\ (Report.before_memory = None \/ Report.after_memory = None))
              => (Report.freed_memory_gb = 0 /\ Report.freed_memory_mb = 0 /\ Report.success)
        /\ Report.raised # ""
              => (Report.freed_memory_gb = 0 /\ ~Report.success)
        /\ (Report.before_memory # None /\ Report.after_memory # None)
              => /\ Report.freed_memory_gb = Report.before_memory[2] - Report.after_memory[2]
                 /\ Report.success
                 /\ Report.raised = ""

\* A report with both snapshots whose freed amount is negative.
C10_Witness ==
    /\ Reported
    /\ Report.before_memory # None /\ Report.after_memory # None
    /\ Report.freed_memory_gb < 0

\* A report whose before-snapshot exists and whose after-snapshot was asked
\* for and is None.
C10_WitnessAfterMissing ==
    /\ Reported
    /\ Report.before_memory # None /\ Report.after_memory = None
    /\ "after" \in Report.ran
    /\ Report.success

(***************************************************************************)
(* The nodes: ReservedMemorySetter.set_memory, step by step, and           *)
(* BatchMemoryCleaner.clean.  The arguments of set_memory live in the      *)
(* variables reserved, mode, gpu_index and min_safe_reserve; gpu_index is  *)
(* the local that line 583 may overwrite.                                  *)
(***************************************************************************)
NodeReserved == { DEFAULT_RESERVED_GB }
NodeMinSafe == { GBm \div 2, MIN_SAFE_RESERVE_GB }
NodeIndices == (0 - 1)..gpu_count
Anythings == { "image", "latent" }

InitNode ==
    /\ pynvml_available \in BOOLEAN
    /\ gpu_count = 1
    /\ gpu_mem \in [0..0 -> { MemoryInfo(0, 0, 0) } \cup
                            { MemoryInfo(ReclaimTotalGB * GBm, u * GBm, (ReclaimTotalGB - u) * GBm) :
                                u \in 0..ReclaimTotalGB }]
    /\ cuda_available \in BOOLEAN
    /\ reserved = DEFAULT_RESERVED_GB
    /\ mode = "smart"
    /\ gpu_index = 0
    /\ min_safe_reserve = MIN_SAFE_RESERVE_GB
    /\ memory_info = None
    /\ result = NoResult
    /\ pc = "call"
    /\ InitCleanIdle
    /\ InitNodeIdle
    /\ InitMgrIdle

\* clear_gpu_memory run from its with statement to its return (lines 229-284):
\* the result dict, given the two snapshots, the step that raised ("" for none)
\* and gc's count.
ClearGpuMemory(before, raise_at, collected, after) ==
    LET r0 == [FreshResult EXCEPT !.before_memory = before, !.ran = {"before"}]
        fail(r, step) == [r EXCEPT !.success = FALSE, !.raised = step]
        r1 == IF cuda_available
              THEN [r0 EXCEPT !.ran = @ \cup {"empty_cache"}]
              ELSE r0
        r2 == IF cuda_available
              THEN [r1 EXCEPT !.torch_cuda = TRUE, !.ran = @ \cup {"synchronize"}]
              ELSE r1
        r3 == [r2 EXCEPT !.gc_collected = collected, !.ran = @ \cup {"gc"}]
    IN  CASE raise_at = "empty_cache" -> fail(r0, "empty_cache")
          [] raise_at = "synchronize" -> fail(r1, "synchronize")
          [] raise_at = "gc" -> fail(r2, "gc")
          [] OTHER -> Measured(r3, after)

\* What gc.collect() may return.
GcCounts == { 0 }

\* The steps of the reclaim that can raise.
RaisePoints == IF cuda_available THEN { "", "empty_cache", "synchronize", "gc" } ELSE { "", "gc" }

\* The device after a reclaim that gave k GB back while other work took a GB.
AfterReclaim(info, k, a) == MemoryInfo(info[1], info[2] - k * GBm + a * GBm, info[3] + k * GBm - a * GBm)

\* What a reclaim may give back (k) while other work allocates (a).
ReclaimEffects(info, raise_at) ==
    { ka \in (0..(info[2] \div GBm)) \X (0..1) :
        /\ (~cuda_available \/ raise_at = "empty_cache") => ka[1] = 0
        /\ info[3] + ka[1] * GBm - ka[2] * GBm >= 0 }

\* int(max(DEFAULT_RESERVED_GB, min_safe_reserve) * GB_TO_BYTES)  (lines 613-614)
SafeDefault == ToBytes(Max(DEFAULT_RESERVED_GB, min_safe_reserve))

\* A call of set_memory arrives with its arguments.
SetMemoryCall ==
    /\ node.pc = "idle"
    /\ \E r \in NodeReserved, m \in ModeValues, i \in NodeIndices, f \in NodeMinSafe,
          c \in BOOLEAN, g \in BOOLEAN, a \in Anythings :
         /\ reserved' = r
         /\ mode' = m
         /\ gpu_index' = i
         /\ min_safe_reserve' = f
         /\ node' = [NodeIdle EXCEPT !.pc = "validate", !.op = "set_memory", !.anything = a,
                                     !.clear_memory = c, !.show_gpu_info = g,
                                     !.requested_index = i]
    /\ memory_info' = None
    /\ result' = NoResult
    /\ UNCHANGED << gpuVars, pc, cleanVars, slot, cleanup_calls, mgrVars >>

\* A variant of SetValidate that keeps the index it was given.
SetValidate_Keep ==
    /\ node.pc = "validate"
    /\ \E count_ok \in BOOLEAN :
         gpu_index' = gpu_index
    /\ node' = [node EXCEPT !.pc = "show", !.hist = Append(@, "validate")]
    /\ UNCHANGED << gpuVars, reserved, mode, min_safe_reserve, memory_info, result, pc,
                    cleanVars, slot, cleanup_calls, mgrVars >>

\* if not validate_gpu_index(gpu_index): gpu_index = 0  (lines 581-583)
SetValidate ==
    /\ node.pc = "validate"
    /\ \E count_ok \in BOOLEAN :
         gpu_index' = IF ValidateGpuIndex(gpu_index, count_ok) THEN gpu_index ELSE 0
    /\ node' = [node EXCEPT !.pc = "show", !.hist = Append(@, "validate")]
    /\ UNCHANGED << gpuVars, reserved, mode, min_safe_reserve, memory_info, result, pc,
                    cleanVars, slot, cleanup_calls, mgrVars >>

\* The except clause of set_memory (lines 611-615) and the return.
SetExcept(done) ==
    /\ slot' = SafeDefault
    /\ node' = [node EXCEPT !.pc = "done", !.ret = node.anything,
                            !.hist = @ \o done \o << "except" >>]

\* if show_gpu_info: self._show_gpu_info(gpu_index)  (lines 586-587, 619-647):
\* the usage percentage divides by total_gb.
SetShowInfo ==
    /\ node.pc = "show"
    /\ \/ /\ ~node.show_gpu_info
          /\ node' = [node EXCEPT !.pc = "clear"]
          /\ UNCHANGED slot
       \/ /\ node.show_gpu_info
          /\ \E count_ok \in BOOLEAN, count_ok2 \in BOOLEAN, query_ok \in BOOLEAN :
               LET available == ValidateGpuIndex(gpu_index, count_ok)
                   memory == IF available
                             THEN GetGpuMemoryInfo(gpu_index, count_ok2, query_ok)
                             ELSE None
               IN  IF memory # None /\ memory[1] = 0
                   THEN SetExcept(<< "show" >>)
                   ELSE /\ node' = [node EXCEPT !.pc = "clear", !.hist = Append(@, "show")]
                        /\ UNCHANGED slot
    /\ UNCHANGED << gpuVars, calcVars, cleanVars, cleanup_calls, mgrVars >>

\* if clear_memory: clean_result = clear_gpu_memory(gpu_index)  (lines 590-596)
SetClear ==
    /\ node.pc = "clear"
    /\ \/ /\ ~node.clear_memory
          /\ node' = [node EXCEPT !.pc = "calc"]
          /\ UNCHANGED gpu_mem
       \/ /\ node.clear_memory
          /\ lock = 0
          /\ \E raise_at \in RaisePoints, collected \in GcCounts,
                b_count \in BOOLEAN, b_query \in BOOLEAN,
                a_count \in BOOLEAN, a_query \in BOOLEAN :
               \E ka \in ReclaimEffects(gpu_mem[0], raise_at) :
                 LET before == GetGpuMemoryInfo(gpu_index, b_count, b_query)
                     device == AfterReclaim(gpu_mem[0], ka[1], ka[2])
                     after == IF GetGpuMemoryInfo(gpu_index, a_count, a_query) = None
                              THEN None ELSE device
                 IN  /\ gpu_mem' = [gpu_mem EXCEPT ![0] = device]
                     /\ node' = [node EXCEPT
                                   !.pc = "calc",
                                   !.hist = Append(@, "reclaim"),
                                   !.clean_result =
                                       << ClearGpuMemory(before, raise_at, collected, after) >>]
    /\ UNCHANGED << pynvml_available, gpu_count, cuda_available, calcVars, cleanVars,
                    slot, cleanup_calls, mgrVars >>

\* A variant of SetCalculate that hands the engine the reclaim's own
\* after-snapshot when a reclaim ran, instead of asking telemetry again.
SetCalculate_Stale ==
    /\ node.pc = "calc"
    /\ \E count_ok \in BOOLEAN, query_ok \in BOOLEAN :
         LET info == IF node.clean_result # << >>
                     THEN node.clean_result[1].after_memory
                     ELSE GetGpuMemoryInfo(gpu_index, count_ok, query_ok)
             r == Dispatch(reserved, mode, min_safe_reserve, info)
         IN  /\ memory_info' = info
             /\ result' = r
             /\ IF r.status = "returned"
                THEN /\ slot' = r.bytes
                     /\ node' = [node EXCEPT !.pc = "done", !.ret = node.anything,
                                             !.hist = @ \o << "telemetry", "engine", "write" >>]
                ELSE SetExcept(<< "telemetry", "engine" >>)
    /\ UNCHANGED << gpuVars, reserved, mode, gpu_index, min_safe_reserve, pc,
                    cleanVars, cleanup_calls, mgrVars >>

\* A variant of SetCalculate that leaves the slot alone when the engine raises.
SetCalculate_NoFallback ==
    /\ node.pc = "calc"
    /\ \E count_ok \in BOOLEAN, query_ok \in BOOLEAN :
         LET info == GetGpuMemoryInfo(gpu_index, count_ok, query_ok)
             r == Dispatch(reserved, mode, min_safe_reserve, info)
         IN  /\ memory_info' = info
             /\ result' = r
             /\ slot' = IF r.status = "returned" THEN r.bytes ELSE slot
             /\ node' = [node EXCEPT !.pc = "done", !.ret = node.anything,
                                     !.hist = @ \o << "telemetry", "engine", "write" >>]
    /\ UNCHANGED << gpuVars, reserved, mode, gpu_index, min_safe_reserve, pc,
                    cleanVars, cleanup_calls, mgrVars >>

\* calculate_reserved_memory, the write of EXTRA_RESERVED_MEMORY, or the except
\* clause, and the return  (lines 599-617)
SetCalculate ==
    /\ node.pc = "calc"
    /\ \E count_ok \in BOOLEAN, query_ok \in BOOLEAN :
         LET info == GetGpuMemoryInfo(gpu_index, count_ok, query_ok)
             r == Dispatch(reserved, mode, min_safe_reserve, info)
         IN  /\ memory_info' = info
             /\ result' = r
             /\ IF r.status = "returned"
                THEN /\ slot' = r.bytes
                     /\ node' = [node EXCEPT !.pc = "done", !.ret = node.anything,
                                             !.hist = @ \o << "telemetry", "engine", "write" >>]
                ELSE SetExcept(<< "telemetry", "engine" >>)
    /\ UNCHANGED << gpuVars, reserved, mode, gpu_index, min_safe_reserve, pc,
                    cleanVars, cleanup_calls, mgrVars >>

\* A variant of BatchClean that runs the deep clean whatever `aggressive` says.
BatchClean_AlwaysDeep ==
    /\ node.pc = "idle"
    /\ lock = 0
    /\ \E all \in BOOLEAN, deep \in BOOLEAN, a \in Anythings,
          raise_at \in RaisePoints, has_cleanup \in BOOLEAN :
         \E ka \in ReclaimEffects(gpu_mem[0], raise_at) :
           /\ gpu_mem' = [gpu_mem EXCEPT ![0] = AfterReclaim(@, ka[1], ka[2])]
           /\ cleanup_calls' = IF has_cleanup
                               THEN cleanup_calls \cup { [op |-> "clean", aggressive |-> deep] }
                               ELSE cleanup_calls
           /\ node' = [NodeIdle EXCEPT !.pc = "done", !.op = "clean", !.anything = a,
                                       !.clear_all_gpus = all, !.aggressive = deep,
                                       !.hist = << "reclaim", "deep" >>, !.ret = a]
    /\ UNCHANGED << pynvml_available, gpu_count, cuda_available, calcVars, cleanVars,
                    slot, mgrVars >>

\* BatchMemoryCleaner.clean (lines 761-805) as one step: the reclaim of the
\* device(s), then, if aggressive, clear_all_caches (lines 286-306), whose
\* cleanup_models() is reached when model_management has it and emptying the
\* allocator caches did not raise.  early_raise: torch's device count raised.
BatchClean ==
    /\ node.pc = "idle"
    /\ lock = 0
    /\ \E all \in BOOLEAN, deep \in BOOLEAN, a \in Anythings,
          raise_at \in RaisePoints, early_raise \in BOOLEAN,
          cache_raise \in BOOLEAN, has_cleanup \in BOOLEAN :
         \E ka \in ReclaimEffects(gpu_mem[0], raise_at) :
           LET raised == all /\ early_raise
               reclaims == ~raised /\ (all => cuda_available)
               deepens == deep /\ ~raised
               releases == deepens /\ ~cache_raise /\ has_cleanup
           IN  /\ early_raise => all
               /\ gpu_mem' = IF reclaims
                             THEN [gpu_mem EXCEPT ![0] = AfterReclaim(@, ka[1], ka[2])]
                             ELSE gpu_mem
               /\ cleanup_calls' = IF releases
                                   THEN cleanup_calls \cup { [op |-> "clean", aggressive |-> deep] }
                                   ELSE cleanup_calls
               /\ node' = [NodeIdle EXCEPT
                             !.pc = "done", !.op = "clean", !.anything = a,
                             !.clear_all_gpus = all, !.aggressive = deep,
                             !.hist = (IF raised THEN << "except" >>
                                       ELSE IF reclaims THEN << "reclaim" >> ELSE << >>)
                                      \o (IF deepens THEN << "deep" >> ELSE << >>),
                             !.ret = a]
    /\ UNCHANGED << pynvml_available, gpu_count, cuda_available, calcVars, cleanVars,
                    slot, mgrVars >>

\* return (anything,) / return (anything, report): the host takes the value and
\* the call's locals are gone  (lines 617, 805)
NodeReturn ==
    /\ node.pc = "done"
    /\ node' = NodeIdle
    /\ reserved' = DEFAULT_RESERVED_GB
    /\ mode' = "smart"
    /\ gpu_index' = 0
    /\ min_safe_reserve' = MIN_SAFE_RESERVE_GB
    /\ memory_info' = None
    /\ result' = NoResult
    /\ UNCHANGED << gpuVars, pc, cleanVars, slot, cleanup_calls, mgrVars >>

NextNode ==
    \/ SetMemoryCall
    \/ SetValidate
    \/ SetShowInfo
    \/ SetClear
    \/ SetCalculate
    \/ BatchClean
    \/ NodeReturn
    \/ Allocate

SpecNode == InitNode /\ [][NextNode]_vars

(***************************************************************************)
(* Claims about the nodes                                                  *)
(***************************************************************************)
SetDone == node.pc = "done" /\ node.op = "set_memory"
CleanDone == node.pc = "done" /\ node.op = "clean"
EngineRan == result.status # "none"
OutOfRange(i) == i < 0 \/ i >= gpu_count

\* The position of event e in the call's history, 0 when it did not happen.
At(e) ==
    LET S == { i \in 1..Len(node.hist) : node.hist[i] = e }
    IN  IF S = {} THEN 0 ELSE CHOOSE i \in S : \A j \in S : i <= j

\* What telemetry answers for the call's device at this moment.
DeviceNow == IF gpu_index \in DOMAIN gpu_mem THEN { None, gpu_mem[gpu_index] } ELSE { None }

\* C11: the model cache is released only by a clean call with aggressive =
\* true: every step that adds a cleanup_models() call is the step of such a
\* call, and no step of set_memory (clear_memory or not) or of a clean call
\* with aggressive = false adds one.
C11_CacheReleaseOnlyWhenAggressive ==
    [][ cleanup_calls' # cleanup_calls =>
          /\ node'.pc = "done"
          /\ node'.op = "clean"
          /\ node'.aggressive
          /\ \A c \in cleanup_calls' : c.op = "clean" /\ c.aggressive ]_vars

\* The cache was released by an aggressive clean after a set_memory had set
\* the slot.
C11_Witness ==
    /\ CleanDone
    /\ node.aggressive
    /\ cleanup_calls # {}
    /\ slot # NoBytes

\* C12: once set_memory has returned, the slot holds the engine's byte count
\* for the call's arguments and snapshot, or, when a step raised,
\* int(max(DEFAULT_RESERVED_GB, min_safe_reserve) * 2^30); it is never unset,
\* and the call returned `anything`.
C12_SlotAlwaysSet ==
    SetDone =>
      /\ slot # NoBytes
      /\ node.ret = node.anything
      /\ IF result.status = "returned"
         THEN /\ result = Dispatch(reserved, mode, min_safe_reserve, memory_info)
              /\ slot = result.bytes
         ELSE slot = ToBytes(Max(DEFAULT_RESERVED_GB, min_safe_reserve))

\* The engine raised and the slot took the safe default, which here is the
\* default 1.0 GB and not min_safe_reserve.
C12_Witness ==
    /\ SetDone
    /\ result.status = "ZeroDivisionError"
    /\ min_safe_reserve < DEFAULT_RESERVED_GB
    /\ slot = ToBytes(DEFAULT_RESERVED_GB)

\* Telemetry answers None for every out-of-range index, whatever NVML does.
DirectQueryDegrades ==
    \A i \in NodeIndices, count_ok \in BOOLEAN, query_ok \in BOOLEAN :
      OutOfRange(i) => GetGpuMemoryInfo(i, count_ok, query_ok) = None

\* C13 as stated: an out-of-range index yields None from get_gpu_memory_info,
\* and a set_memory call given one writes the mode's no-snapshot reservation.
C13_InvalidIndexIsNoSnapshot ==
    /\ DirectQueryDegrades
    /\ (SetDone /\ OutOfRange(node.requested_index) /\ result.status = "returned") =>
          slot = Dispatch(reserved, mode, min_safe_reserve, None).bytes

\* C13: an out-of-range index yields None from get_gpu_memory_info without
\* raising; set_memory given one replaces it by 0 and computes the reservation
\* from device 0's telemetry at that moment, so the no-snapshot fallback is
\* written only when device 0 has no snapshot either.
C13_InvalidIndexBecomesDeviceZero ==
    /\ []DirectQueryDegrades
    /\ [][ (node.pc = "calc" /\ node'.pc = "done" /\ OutOfRange(node.requested_index)) =>
             /\ gpu_index = 0
             /\ memory_info' \in { None, gpu_mem[0] }
             /\ result' = Dispatch(reserved, mode, min_safe_reserve, memory_info')
             /\ result'.status = "returned" => slot' = result'.bytes ]_vars

\* set_memory was given index -1 and wrote a reservation computed from device
\* 0's snapshot that differs from the mode's no-snapshot fallback.
C13_Witness ==
    /\ SetDone
    /\ node.requested_index < 0
    /\ gpu_index = 0
    /\ memory_info # None
    /\ result.status = "returned"
    /\ slot = result.bytes
    /\ slot # Dispatch(reserved, mode, min_safe_reserve, None).bytes

\* C14: the step that runs the engine comes after the reclaim when
\* clear_memory was asked for, takes its snapshot from the device as it is at
\* that step (never the reclaim's own before or after measurement), runs the
\* engine on that snapshot and writes its result; this holds whatever the
\* reclaim's success flag.  In the returned call the order is reclaim,
\* telemetry, engine, write.
C14_ReclaimThenSnapshotThenEngine ==
    /\ [](SetDone /\ At("write") > 0 =>
            /\ node.clear_memory <=> At("reclaim") > 0
            /\ At("reclaim") < At("telemetry")
            /\ At("telemetry") < At("engine")
            /\ At("engine") < At("write"))
    /\ [][ (node.pc = "calc" /\ node'.pc = "done") =>
             /\ node.clear_memory => node.clean_result # << >>
             /\ memory_info' \in DeviceNow
             /\ result' = Dispatch(reserved, mode, min_safe_reserve, memory_info')
             /\ result'.status = "returned" => slot' = result'.bytes ]_vars

\* A call whose reclaim failed still ran the engine on a snapshot taken after
\* it, different from what the reclaim measured before.
C14_Witness ==
    /\ SetDone
    /\ node.clear_memory
    /\ node.clean_result # << >>
    /\ ~node.clean_result[1].success
    /\ memory_info # None
    /\ memory_info # node.clean_result[1].before_memory
    /\ At("write") > 0

(***************************************************************************)
(* GPUManager() called from several threads: __new__ and then __init__,    *)
(* one statement per step.  mgr holds the class attributes _instance (0    *)
(* for None), _lock (0 or its holder) and _initialized; objs[o] tells how  *)
(* far object o's attributes are: "bare" (no _pynvml_available yet),       *)
(* "placeholder" (line 67 ran) or "ready" (_initialize_pynvml returned).   *)
(***************************************************************************)
Caller(position, obj) == [pc |-> position, self |-> obj]

InitSingleton ==
    /\ pynvml_available = FALSE
    /\ gpu_count = 1
    /\ gpu_mem = [i \in 0..0 |-> MemoryInfo(ReclaimTotalGB * GBm, 0, ReclaimTotalGB * GBm)]
    /\ cuda_available = TRUE
    /\ reserved = DEFAULT_RESERVED_GB
    /\ mode = "smart"
    /\ gpu_index = 0
    /\ min_safe_reserve = MIN_SAFE_RESERVE_GB
    /\ memory_info = None
    /\ result = NoResult
    /\ pc = "call"
    /\ InitCleanIdle
    /\ InitNodeIdle
    /\ mgr = [instance |-> 0, lock |-> 0, initialized |-> FALSE, objs |-> << >>, init_runs |-> 0]
    /\ ctor = [t \in Threads |-> Caller("start", 0)]

\* What no constructor step touches, the attribute aside.
ctorFrame == << gpu_count, gpu_mem, cuda_available, calcVars, cleanVars, nodeVars >>

Goto(t, position) == ctor' = [ctor EXCEPT ![t].pc = position]

\* A thread calls GPUManager().
CtorCall(t) ==
    /\ ctor[t].pc \in { "start", "returned" }
    /\ ctor' = [ctor EXCEPT ![t] = Caller("new_check", 0)]
    /\ UNCHANGED << pynvml_available, ctorFrame, mgr >>

\* if cls._instance is None:  (line 55)
NewCheck(t) ==
    /\ ctor[t].pc = "new_check"
    /\ Goto(t, IF mgr.instance = 0 THEN "new_lock" ELSE "new_return")
    /\ UNCHANGED << pynvml_available, ctorFrame, mgr >>

\* with cls._lock:  (line 56)
NewLock(t) ==
    /\ ctor[t].pc = "new_lock"
    /\ mgr.lock = 0
    /\ mgr' = [mgr EXCEPT !.lock = t]
    /\ Goto(t, "new_recheck")
    /\ UNCHANGED << pynvml_available, ctorFrame >>

\* if cls._instance is None: cls._instance = super().__new__(cls), and the
\* end of the with block  (lines 57-58)
NewCreate(t) ==
    /\ ctor[t].pc = "new_recheck"
    /\ mgr' = IF mgr.instance = 0
              THEN [mgr EXCEPT !.objs = Append(@, "bare"), !.instance = Len(mgr.objs) + 1,
                               !.lock = 0]
              ELSE [mgr EXCEPT !.lock = 0]
    /\ Goto(t, "new_return")
    /\ UNCHANGED << pynvml_available, ctorFrame >>

\* return cls._instance  (line 59); type.__call__ then runs __init__ on it.
NewReturn(t) ==
    /\ ctor[t].pc = "new_return"
    /\ ctor' = [ctor EXCEPT ![t] = Caller("init_check", mgr.instance)]
    /\ UNCHANGED << pynvml_available, ctorFrame, mgr >>

\* if not GPUManager._initialized:  (line 63)
InitCheck(t) ==
    /\ ctor[t].pc = "init_check"
    /\ Goto(t, IF ~mgr.initialized THEN "init_lock" ELSE "returned")
    /\ UNCHANGED << pynvml_available, ctorFrame, mgr >>

\* with GPUManager._lock:  (line 64)
InitLock(t) ==
    /\ ctor[t].pc = "init_lock"
    /\ mgr.lock = 0
    /\ mgr' = [mgr EXCEPT !.lock = t]
    /\ Goto(t, "init_recheck")
    /\ UNCHANGED << pynvml_available, ctorFrame >>

\* A variant of InitRecheck without the second test of _initialized.
InitRecheck_Unchecked(t) ==
    /\ ctor[t].pc = "init_recheck"
    /\ Goto(t, "init_attrs")
    /\ UNCHANGED << pynvml_available, ctorFrame, mgr >>

\* if not GPUManager._initialized:  (line 65); otherwise the with block ends.
InitRecheck(t) ==
    /\ ctor[t].pc = "init_recheck"
    /\ IF ~mgr.initialized
       THEN /\ Goto(t, "init_attrs")
            /\ UNCHANGED mgr
       ELSE /\ Goto(t, "returned")
            /\ mgr' = [mgr EXCEPT !.lock = 0]
    /\ UNCHANGED << pynvml_available, ctorFrame >>

\* self.pynvml = None; self._pynvml_available = False  (lines 66-67)
InitAttrs(t) ==
    /\ ctor[t].pc = "init_attrs"
    /\ mgr' = [mgr EXCEPT !.objs[ctor[t].self] = "placeholder"]
    /\ pynvml_available' = FALSE
    /\ Goto(t, "init_pynvml")
    /\ UNCHANGED ctorFrame

\* self._initialize_pynvml()  (lines 68, 71-84): the import and nvmlInit go
\* well or raise; either way the attribute gets its value and nothing escapes.
InitPynvml(t) ==
    /\ ctor[t].pc = "init_pynvml"
    /\ \E ok \in BOOLEAN : pynvml_available' = ok
    /\ mgr' = [mgr EXCEPT !.objs[ctor[t].self] = "ready", !.init_runs = @ + 1]
    /\ Goto(t, "init_flag")
    /\ UNCHANGED ctorFrame

\* GPUManager._initialized = True, and the end of the with block  (line 69)
InitFlag(t) ==
    /\ ctor[t].pc = "init_flag"
    /\ mgr' = [mgr EXCEPT !.initialized = TRUE, !.lock = 0]
    /\ Goto(t, "returned")
    /\ UNCHANGED << pynvml_available, ctorFrame >>

NextSingleton ==
    \/ \E t \in Threads : CtorCall(t)
    \/ \E t \in Threads : NewCheck(t)
    \/ \E t \in Threads : NewLock(t)
    \/ \E t \in Threads : NewCreate(t)
    \/ \E t \in Threads : NewReturn(t)
    \/ \E t \in Threads : InitCheck(t)
    \/ \E t \in Threads : InitLock(t)
    \/ \E t \in Threads : InitRecheck(t)
    \/ \E t \in Threads : InitAttrs(t)
    \/ \E t \in Threads : InitPynvml(t)
    \/ \E t \in Threads : InitFlag(t)

SpecSingleton == InitSingleton /\ [][NextSingleton]_vars

HasInstance(t) == ctor[t].pc = "returned"

\* C15: whatever the interleaving, every caller whose GPUManager() has
\* returned holds the one instance, whose _pynvml_available has its final
\* value because _initialize_pynvml has returned; only one object is ever
\* created, and _initialize_pynvml runs at most once, exactly once as soon as
\* any call has returned.
C15_InitializeOnce ==
    /\ Len(mgr.objs) <= 1
    /\ mgr.init_runs <= 1
    /\ \A t \in Threads :
         HasInstance(t) =>
           /\ ctor[t].self = 1
           /\ ctor[t].self = mgr.instance
           /\ mgr.objs[ctor[t].self] = "ready"
           /\ mgr.init_runs = 1
           /\ mgr.initialized
    /\ \A t \in Threads, u \in Threads :
         HasInstance(t) /\ HasInstance(u) => ctor[t].self = ctor[u].self

\* Two callers raced: one has returned with the instance while the other,
\* which had seen _initialized false, now holds the lock and finds it true.
C15_Witness ==
    \E t \in Threads, u \in Threads :
      /\ HasInstance(t)
      /\ ctor[u].pc = "init_recheck"
      /\ mgr.initialized
      /\ mgr.init_runs = 1
      /\ ctor[t].self = ctor[u].self
====
